---------------------------- MODULE Spec2Model ----------------------------
(***************************************************************************)
(* Model of the two stateful parts of the music bot:                       *)
(*                                                                         *)
(*  - the idle monitor of src/core/PlayerClient.js (setupIdleTimeout): the *)
(*    voiceStateUpdate handler, the idle-timer callback and the module     *)
(*    level Map idleTimers, together with the commands and player events   *)
(*    that create and delete a guild's queue (/play, /stop, /leave, a      *)
(*    forced voice disconnect);                                            *)
(*  - the media relay of createStream: the async task that fetches the     *)
(*    audio in ranged chunks and writes them to a PassThrough.             *)
(*                                                                         *)
(* Time is counted in ticks of TickMs milliseconds.                        *)
(***************************************************************************)
EXTENDS Integers, Sequences, FiniteSets, TLC

\* Guild ids (session keys).
Guilds == {"g1", "g2"}

\* Largest number of humans in a guild's voice channel.
MaxHumans == 2

\* Number of timer handles the runtime can hand out.
MaxTimers == 2

\* Milliseconds per tick of the model's clock.
TickMs == 100000

\* AUDIO.IDLE_TIMEOUT, in milliseconds.
IDLE_TIMEOUT == 300000

\* The delay of setTimeout(cb, AUDIO.IDLE_TIMEOUT), in ticks (rounded up).
IdleTicks == (IDLE_TIMEOUT + TickMs - 1) \div TickMs

\* The delay of setTimeout(cb, ms), in ticks (rounded up).
DelayTicks(ms) == (ms + TickMs - 1) \div TickMs

None == "none"

Handles == 1..MaxTimers

\* A JavaScript Map as a function on the set of its keys.
EmptyMap == [k \in {} |-> None]

Has(m, k) == k \in DOMAIN m

MapSet(m, k, v) == [x \in (DOMAIN m) \cup {k} |-> IF x = k THEN v ELSE m[x]]

\* A delete that empties the Map.
MapClear(m, k) == [x \in {} |-> None]

MapDelete(m, k) == [x \in (DOMAIN m) \ {k} |-> m[x]]

Min(a, b) == IF a <= b THEN a ELSE b

\* Largest length of the remote resource, in bytes.
MaxLen == 5

\* Largest value of CHUNK_SIZE, in bytes.
MaxChunk == 2

\* Largest number of bytes one read of a response body yields.
MaxRead == 2

\* QUEUE.MAX_SIZE
QUEUE_MAX_SIZE == 500

\* CHANNELS.MUSIC_REQUESTS_NAME
MUSIC_REQUESTS_NAME == "music-requests"

\* The text channels an interaction may come from.
Channels == {MUSIC_REQUESTS_NAME, "general"}

\* Number of /play interactions that can be suspended at the same time.
MaxCmds == 2

Cmds == 1..MaxCmds

\* Largest number of tracks one search result (a playlist) holds.
MaxPlaylist == 2

VARIABLES
    queues,       \* player.queues: the guilds that have a queue bound to a voice channel
    humans,       \* humans[g]: non-bot members of guild g's voice channel
    idleTimers,   \* the Map idleTimers: guild -> timer handle
    pending,      \* the runtime's pending timers: handle -> [guild, left]
    playPending,  \* playPending[g]: a /play of guild g is suspended at its awaits
    zeroFor,      \* history: ticks for which g's session has had no human, up to IdleTicks
    last,         \* history: what the last step did
    idleTimeout,  \* the configured AUDIO.IDLE_TIMEOUT, in milliseconds
    endedBy,      \* history: what deleted g's last queue, None while g has one
    suspended     \* DisTube variant: guilds whose idle callback awaits distube.stop / voices.leave

VARIABLES
    resLen,        \* length of the resource behind streamUrl
    total,         \* contentLength || 0: the known length, 0 when unknown
    CHUNK_SIZE,    \* bytes per ranged request
    pc,            \* where the relay's async task is
    start,         \* the byte cursor
    part,          \* ranged chunks completed
    wrote,         \* bytes of the current ranged response
    bytesWritten,  \* bytes of all responses
    body,          \* [lo, hi): the offsets the current response body has yet to yield
    awaitDrain,    \* the task awaits pass.once('drain')
    noDataTimer,   \* "unset", "armed", "fired" or "cleared"
    pass,          \* the PassThrough handed to the player
    requests,      \* history: the requests issued, in order
    firedEmpty,    \* history: the no-data timer expired before any byte was written
    cancelled,     \* history: the consumer destroyed the PassThrough
    reqAtClose     \* history: the requests issued when the consumer destroyed it

VARIABLES
    cookiesConfigured,  \* process.env.YOUTUBE_COOKIES_PATH is set
    boot,               \* where createPlayerClient is
    store,              \* player.extractors.store: how YoutubeiExtractor is registered
    usedCookies,        \* the local usedCookies of createPlayerClient
    verified,           \* history: the outcome of the test search with cookies
    tracks,             \* tracks.size + (currentTrack ? 1 : 0) of one guild's queue
    plays               \* plays[i]: the /play interaction i, suspended at its awaits or not

botVars == <<cookiesConfigured, boot, store, usedCookies, verified, tracks, plays>>

monitorVars == <<queues, humans, idleTimers, pending, playPending, zeroFor, last,
                 idleTimeout, endedBy, suspended>>

relayVars == <<resLen, total, CHUNK_SIZE, pc, start, part, wrote, bytesWritten,
               body, awaitDrain, noDataTimer, pass, requests, firedEmpty,
               cancelled, reqAtClose>>

vars == <<queues, humans, idleTimers, pending, playPending, zeroFor, last,
          idleTimeout, endedBy, suspended,
          resLen, total, CHUNK_SIZE, pc, start, part, wrote, bytesWritten,
          body, awaitDrain, noDataTimer, pass, requests, firedEmpty,
          cancelled, reqAtClose,
          cookiesConfigured, boot, store, usedCookies, verified, tracks, plays>>

\* The outcomes of queue.delete(): it returns, or it throws before or after
\* the queue left player.queues.
TeardownOutcomes == {"ok", "throw_before", "throw_after"}

NoStep == [op |-> "init", g |-> None, occ |-> 0, hadQueue |-> FALSE,
           hadTimer |-> FALSE, teardown |-> FALSE, threw |-> FALSE,
           logged |-> FALSE, propagated |-> FALSE, idle |-> 0]

\* The pending timers of guild g.
TimersOf(g) == {h \in DOMAIN pending : pending[h].guild = g}

\* setTimeout returns a handle that is not in use.
FreeHandles == Handles \ DOMAIN pending

NewHandle == CHOOSE h \in FreeHandles : \A k \in FreeHandles : h <= k

MonitorInit ==
    /\ queues = {}
    /\ humans = [g \in Guilds |-> 0]
    /\ idleTimers = EmptyMap
    /\ pending = EmptyMap
    /\ playPending = [g \in Guilds |-> FALSE]
    /\ zeroFor = [g \in Guilds |-> 0]
    /\ last = NoStep
    /\ idleTimeout = IDLE_TIMEOUT
    /\ endedBy = [g \in Guilds |-> None]
    /\ suspended = {}

\* The bot starts with AUDIO.IDLE_TIMEOUT set to 0 ("Set to 0 to disable
\* auto-leave").
MonitorInitDisabled ==
    /\ queues = {}
    /\ humans = [g \in Guilds |-> 0]
    /\ idleTimers = EmptyMap
    /\ pending = EmptyMap
    /\ playPending = [g \in Guilds |-> FALSE]
    /\ zeroFor = [g \in Guilds |-> 0]
    /\ last = NoStep
    /\ idleTimeout = 0
    /\ endedBy = [g \in Guilds |-> None]
    /\ suspended = {}

\* A voiceStateUpdate handler that restarts the timeout of a timer that is
\* already armed.
VoiceStateUpdateRestarts(g, n) ==
    /\ n \in 0..MaxHumans
    /\ n \in {humans[g] - 1, humans[g], humans[g] + 1}
    /\ humans' = [humans EXCEPT ![g] = n]
    /\ zeroFor' = [zeroFor EXCEPT ![g] = IF n = 0 /\ humans[g] = 0 THEN @ ELSE 0]
    /\ IF g \notin queues
       THEN UNCHANGED <<idleTimers, pending>>
       ELSE IF n = 0
            THEN IF ~Has(idleTimers, g)
                 THEN /\ FreeHandles # {}
                      /\ pending' = MapSet(pending, NewHandle,
                                           [guild |-> g,
                                            left |-> DelayTicks(idleTimeout)])
                      /\ idleTimers' = MapSet(idleTimers, g, NewHandle)
                 ELSE /\ pending' = MapSet(pending, idleTimers[g],
                                           [guild |-> g,
                                            left |-> DelayTicks(idleTimeout)])
                      /\ UNCHANGED idleTimers
            ELSE IF Has(idleTimers, g)
                 THEN /\ pending' = MapDelete(pending, idleTimers[g])
                      /\ idleTimers' = MapDelete(idleTimers, g)
                 ELSE UNCHANGED <<idleTimers, pending>>
    /\ last' = [NoStep EXCEPT !.op = "notify", !.g = g, !.occ = n,
                              !.hadQueue = (g \in queues),
                              !.hadTimer = Has(idleTimers, g)]
    /\ UNCHANGED <<queues, playPending, idleTimeout, endedBy>>
    /\ UNCHANGED suspended
    /\ UNCHANGED relayVars
    /\ UNCHANGED botVars

(***************************************************************************)
(* voiceStateUpdate: a human joins or leaves guild g's voice channel, or a  *)
(* voice state in it changes with the same humans present (a mute, a bot    *)
(* joining); the member cache is updated before the event is emitted, then  *)
(* the handler of setupIdleTimeout runs and reads n humans.                 *)
(***************************************************************************)
VoiceStateUpdate(g, n) ==
    /\ n \in 0..MaxHumans
    /\ n \in {humans[g] - 1, humans[g], humans[g] + 1}
    /\ humans' = [humans EXCEPT ![g] = n]
    /\ zeroFor' = [zeroFor EXCEPT ![g] = IF n = 0 /\ humans[g] = 0 THEN @ ELSE 0]
    /\ IF g \notin queues
       THEN \* if (!queue || !queue.channel) return;
            UNCHANGED <<idleTimers, pending>>
       ELSE IF n = 0
            THEN IF ~Has(idleTimers, g)
                 THEN \* setTimeout(..., AUDIO.IDLE_TIMEOUT); idleTimers.set(guildId, timer)
                      /\ FreeHandles # {}
                      /\ pending' = MapSet(pending, NewHandle,
                                           [guild |-> g,
                                            left |-> DelayTicks(idleTimeout)])
                      /\ idleTimers' = MapSet(idleTimers, g, NewHandle)
                 ELSE UNCHANGED <<idleTimers, pending>>
            ELSE IF Has(idleTimers, g)
                 THEN \* clearTimeout(idleTimers.get(guildId)); idleTimers.delete(guildId)
                      /\ pending' = MapDelete(pending, idleTimers[g])
                      /\ idleTimers' = MapDelete(idleTimers, g)
                 ELSE UNCHANGED <<idleTimers, pending>>
    /\ last' = [NoStep EXCEPT !.op = "notify", !.g = g, !.occ = n,
                              !.hadQueue = (g \in queues),
                              !.hadTimer = Has(idleTimers, g)]
    /\ UNCHANGED <<queues, playPending, idleTimeout, endedBy>>
    /\ UNCHANGED suspended
    /\ UNCHANGED relayVars
    /\ UNCHANGED botVars

\* The clock advances by one tick. A /play suspended at its awaits (seconds)
\* resumes within the tick it started in.
Tick ==
    /\ \A g \in Guilds : ~playPending[g]
    /\ pending' = [h \in DOMAIN pending |->
                     [pending[h] EXCEPT !.left = IF @ > 0 THEN @ - 1 ELSE 0]]
    /\ zeroFor' = [g \in Guilds |->
                     IF g \in queues /\ humans[g] = 0
                     THEN Min(zeroFor[g] + 1, IdleTicks) ELSE 0]
    /\ last' = [NoStep EXCEPT !.op = "tick"]
    /\ UNCHANGED <<queues, humans, idleTimers, playPending, idleTimeout, endedBy>>
    /\ UNCHANGED suspended
    /\ UNCHANGED relayVars
    /\ UNCHANGED botVars

\* IdleCallback with the occupancy test inverted (size !== 0).
IdleCallbackInverted(hasQueue, occ, out) ==
    LET invoke == hasQueue /\ occ # 0
        threw  == invoke /\ out # "ok"
    IN  [teardown |-> invoke, removed |-> invoke /\ out \in {"ok", "throw_after"},
         threw |-> threw, logged |-> threw, propagated |-> FALSE,
         released |-> TRUE]

\* IdleCallback without the re-read of the occupancy at fire time.
IdleCallbackNoRecheck(hasQueue, occ, out) ==
    LET invoke == hasQueue
        threw  == invoke /\ out # "ok"
    IN  [teardown |-> invoke, removed |-> invoke /\ out \in {"ok", "throw_after"},
         threw |-> threw, logged |-> threw, propagated |-> FALSE,
         released |-> TRUE]

\* IdleCallback with idleTimers.delete at the end of the try block, not in finally.
IdleCallbackNoFinally(hasQueue, occ, out) ==
    LET invoke == hasQueue /\ occ = 0
        threw  == invoke /\ out # "ok"
    IN  [teardown |-> invoke, removed |-> invoke /\ out \in {"ok", "throw_after"},
         threw |-> threw, logged |-> threw, propagated |-> FALSE,
         released |-> ~threw]

\* What one run of the idle-timer callback does, given whether the guild has a
\* queue with a channel, the humans in it and the outcome of queue.delete().
IdleCallback(hasQueue, occ, out) ==
    LET invoke == hasQueue /\ occ = 0
        threw  == invoke /\ out # "ok"
        caught == threw
    IN  [teardown   |-> invoke,
         removed    |-> invoke /\ out \in {"ok", "throw_after"},
         threw      |-> threw,
         logged     |-> caught,
         propagated |-> threw /\ ~caught,
         released   |-> TRUE]

\* The timer h expires and its callback runs (it has no await: one step).
TimerFire(h) ==
    /\ Has(pending, h)
    /\ pending[h].left = 0
    /\ LET g == pending[h].guild IN
       \E out \in TeardownOutcomes :
          LET r == IdleCallback(g \in queues, humans[g], out) IN
          /\ r.teardown \/ out = "ok"
          /\ queues' = IF r.removed THEN queues \ {g} ELSE queues
          /\ idleTimers' = IF r.released THEN MapDelete(idleTimers, g)
                           ELSE idleTimers
          /\ pending' = MapDelete(pending, h)
          /\ zeroFor' = IF r.removed THEN [zeroFor EXCEPT ![g] = 0] ELSE zeroFor
          /\ last' = [NoStep EXCEPT !.op = "fire", !.g = g, !.occ = humans[g],
                                    !.hadQueue = (g \in queues),
                                    !.hadTimer = Has(idleTimers, g),
                                    !.teardown = r.teardown, !.threw = r.threw,
                                    !.logged = r.logged,
                                    !.propagated = r.propagated,
                                    !.idle = zeroFor[g]]
          /\ endedBy' = IF r.removed THEN [endedBy EXCEPT ![g] = "fire"]
                        ELSE endedBy
    /\ UNCHANGED <<humans, playPending, idleTimeout>>
    /\ UNCHANGED suspended
    /\ UNCHANGED relayVars
    /\ UNCHANGED botVars

\* /stop and /leave: the invoking member is in the bot's voice channel and the
\* guild has a queue; queue.delete() inside try/catch, idleTimers not touched.
ExplicitTeardown(g, op) ==
    /\ g \in queues
    /\ humans[g] >= 1
    /\ \E out \in TeardownOutcomes :
          /\ queues' = IF out \in {"ok", "throw_after"} THEN queues \ {g} ELSE queues
          /\ zeroFor' = [zeroFor EXCEPT ![g] = 0]
          /\ last' = [NoStep EXCEPT !.op = op, !.g = g, !.occ = humans[g],
                                    !.hadQueue = TRUE,
                                    !.hadTimer = Has(idleTimers, g),
                                    !.teardown = TRUE, !.threw = (out # "ok"),
                                    !.logged = (out # "ok")]
          /\ endedBy' = IF out \in {"ok", "throw_after"}
                        THEN [endedBy EXCEPT ![g] = op] ELSE endedBy
    /\ UNCHANGED <<humans, idleTimers, pending, playPending, idleTimeout>>
    /\ UNCHANGED suspended
    /\ UNCHANGED relayVars
    /\ UNCHANGED botVars

Stop(g) == ExplicitTeardown(g, "stop")

Leave(g) == ExplicitTeardown(g, "leave")

\* The bot is disconnected from voice by a moderator: the player deletes the
\* queue and emits 'disconnect'; the handler only sends the message
\* "Left <channel>. The queue has been cleared." and leaves idleTimers alone.
Disconnect(g) ==
    /\ g \in queues
    /\ queues' = queues \ {g}
    /\ zeroFor' = [zeroFor EXCEPT ![g] = 0]
    /\ last' = [NoStep EXCEPT !.op = "disconnect", !.g = g, !.occ = humans[g],
                              !.hadQueue = TRUE,
                              !.hadTimer = Has(idleTimers, g)]
    /\ endedBy' = [endedBy EXCEPT ![g] = "disconnect"]
    /\ UNCHANGED <<humans, idleTimers, pending, playPending, idleTimeout>>
    /\ UNCHANGED suspended
    /\ UNCHANGED relayVars
    /\ UNCHANGED botVars

\* /play up to its first await: the invoking member is in a voice channel.
PlayStart(g) ==
    /\ humans[g] >= 1
    /\ ~playPending[g]
    /\ playPending' = [playPending EXCEPT ![g] = TRUE]
    /\ last' = [NoStep EXCEPT !.op = "play", !.g = g, !.occ = humans[g],
                              !.hadQueue = (g \in queues),
                              !.hadTimer = Has(idleTimers, g)]
    /\ UNCHANGED <<queues, humans, idleTimers, pending, zeroFor, idleTimeout,
                   endedBy>>
    /\ UNCHANGED suspended
    /\ UNCHANGED relayVars
    /\ UNCHANGED botVars

\* /play after its awaits: player.play(voiceChannel, ...) creates the guild's
\* queue and connects it unless the guild has one (or the search found nothing).
PlayConnect(g) ==
    /\ playPending[g]
    /\ playPending' = [playPending EXCEPT ![g] = FALSE]
    /\ \E found \in BOOLEAN :
          /\ queues' = IF found THEN queues \cup {g} ELSE queues
          /\ zeroFor' = IF found /\ g \notin queues
                        THEN [zeroFor EXCEPT ![g] = 0] ELSE zeroFor
          /\ endedBy' = IF found THEN [endedBy EXCEPT ![g] = None] ELSE endedBy
    /\ last' = [NoStep EXCEPT !.op = "connect", !.g = g, !.occ = humans[g],
                              !.hadQueue = (g \in queues),
                              !.hadTimer = Has(idleTimers, g)]
    /\ UNCHANGED <<humans, idleTimers, pending, idleTimeout>>
    /\ UNCHANGED suspended
    /\ UNCHANGED relayVars
    /\ UNCHANGED botVars

\* The player emits 'emptyQueue': the last track of guild g's queue has ended.
\* The handler sends "Queue Finished ... I'll leave the channel in N minutes if
\* no new songs are added." (when AUDIO.IDLE_TIMEOUT > 0) and does nothing
\* else; the queue is created with leaveOnEnd: false.
EmptyQueue(g) ==
    /\ g \in queues
    /\ last' = [NoStep EXCEPT !.op = "emptyQueue", !.g = g, !.occ = humans[g],
                              !.hadQueue = TRUE,
                              !.hadTimer = Has(idleTimers, g),
                              !.logged = (idleTimeout > 0)]
    /\ UNCHANGED <<queues, humans, idleTimers, pending, playPending, zeroFor,
                   idleTimeout, endedBy, suspended>>
    /\ UNCHANGED relayVars
    /\ UNCHANGED botVars

MonitorNext ==
    \/ \E g \in Guilds : EmptyQueue(g)
    \/ \E g \in Guilds, n \in 0..MaxHumans : VoiceStateUpdate(g, n)
    \/ Tick
    \/ \E h \in Handles : TimerFire(h)
    \/ \E g \in Guilds : Stop(g)
    \/ \E g \in Guilds : Leave(g)
    \/ \E g \in Guilds : Disconnect(g)
    \/ \E g \in Guilds : PlayStart(g)
    \/ \E g \in Guilds : PlayConnect(g)

----------------------------------------------------------------------------
(* The idle callback of src/core/DistubeClient.js, which awaits the teardown. *)
(* Here queues stands for distube.voices, the guilds with a voice connection. *)

\* The timer h expires and its callback runs up to its first await: with a
\* voice connection and no human it calls distube.stop / voices.leave and is
\* suspended; otherwise it goes through finally at once.
DistubeFireStart(h) ==
    /\ Has(pending, h)
    /\ pending[h].left = 0
    /\ LET g == pending[h].guild
           invoke == g \in queues /\ humans[g] = 0
       IN  /\ g \notin suspended
           /\ pending' = MapDelete(pending, h)
           /\ suspended' = IF invoke THEN suspended \cup {g} ELSE suspended
           /\ idleTimers' = IF invoke THEN idleTimers ELSE MapDelete(idleTimers, g)
           /\ last' = [NoStep EXCEPT !.op = "fire_start", !.g = g,
                                     !.occ = humans[g],
                                     !.hadQueue = (g \in queues),
                                     !.hadTimer = Has(idleTimers, g),
                                     !.teardown = invoke,
                                     !.idle = zeroFor[g]]
    /\ UNCHANGED <<queues, humans, playPending, zeroFor, idleTimeout, endedBy>>
    /\ UNCHANGED relayVars
    /\ UNCHANGED botVars

\* The awaited teardown settles and the callback resumes: the catch block logs
\* a rejection, and finally runs idleTimers.delete(guildId).
DistubeFireResume(g) ==
    /\ g \in suspended
    /\ suspended' = suspended \ {g}
    /\ \E out \in TeardownOutcomes :
          /\ queues' = IF out \in {"ok", "throw_after"} THEN queues \ {g} ELSE queues
          /\ zeroFor' = IF out \in {"ok", "throw_after"}
                        THEN [zeroFor EXCEPT ![g] = 0] ELSE zeroFor
          /\ endedBy' = IF out \in {"ok", "throw_after"}
                        THEN [endedBy EXCEPT ![g] = "fire"] ELSE endedBy
          /\ last' = [NoStep EXCEPT !.op = "fire_end", !.g = g, !.occ = humans[g],
                                    !.hadQueue = (g \in queues),
                                    !.hadTimer = Has(idleTimers, g),
                                    !.teardown = TRUE, !.threw = (out # "ok"),
                                    !.logged = (out # "ok")]
    /\ idleTimers' = MapDelete(idleTimers, g)
    /\ UNCHANGED <<humans, pending, playPending, idleTimeout>>
    /\ UNCHANGED relayVars
    /\ UNCHANGED botVars

DistubeNext ==
    \/ \E g \in Guilds, n \in 0..MaxHumans : VoiceStateUpdate(g, n)
    \/ Tick
    \/ \E h \in Handles : DistubeFireStart(h)
    \/ \E g \in Guilds : DistubeFireResume(g)
    \/ \E g \in Guilds : PlayStart(g)
    \/ \E g \in Guilds : PlayConnect(g)

----------------------------------------------------------------------------
(* The media relay: the async task of createStream *)

NewPass == [data |-> << >>, ended |-> FALSE, destroyed |-> FALSE,
            destroyCalls |-> 0, endCalls |-> 0]

\* No stream is open.
RelayOff ==
    /\ resLen = 1 /\ total = 0 /\ CHUNK_SIZE = 1
    /\ pc = "idle"
    /\ start = 0 /\ part = 0 /\ wrote = 0 /\ bytesWritten = 0
    /\ body = [lo |-> 0, hi |-> 0]
    /\ awaitDrain = FALSE
    /\ noDataTimer = "unset"
    /\ pass = NewPass
    /\ requests = << >>
    /\ firedEmpty = FALSE
    /\ cancelled = FALSE
    /\ reqAtClose = 0

\* createStream has built the PassThrough and is about to start the task.
RelayInit ==
    /\ resLen \in 1..MaxLen
    /\ total \in {0, resLen}
    /\ CHUNK_SIZE \in 1..MaxChunk
    /\ pc = "open"
    /\ start = 0 /\ part = 0 /\ wrote = 0 /\ bytesWritten = 0
    /\ body = [lo |-> 0, hi |-> 0]
    /\ awaitDrain = FALSE
    /\ noDataTimer = "unset"
    /\ pass = NewPass
    /\ requests = << >>
    /\ firedEmpty = FALSE
    /\ cancelled = FALSE
    /\ reqAtClose = 0

\* The end of the range taken one byte too far.
RangeEndOffByOne(s, t, c) == Min(s + c, t - 1)

\* const end = Math.min(start + CHUNK_SIZE - 1, total - 1)
RangeEnd(s, t, c) == Min(s + c - 1, t - 1)

RangeRequest(s, t, c) == [kind |-> "range", s |-> s, e |-> RangeEnd(s, t, c)]

FullRequest == [kind |-> "full", s |-> 0, e |-> 0]

\* The bodies a server may send with a success status: the bytes asked for,
\* all but the last of them, or none.
BodyKinds == {"exact", "short", "empty"}

BodyOf(req, kind) ==
    LET lo == IF req.kind = "range" THEN req.s ELSE 0
        hi == IF req.kind = "range" THEN req.e + 1 ELSE resLen
    IN  CASE kind = "exact" -> [lo |-> lo, hi |-> hi]
          [] kind = "short" -> [lo |-> lo, hi |-> hi - 1]
          [] OTHER          -> [lo |-> lo, hi |-> lo]

\* The sink is ended where it should be destroyed with the error.
DestroyEnds(p) == [p EXCEPT !.ended = TRUE, !.endCalls = @ + 1]

\* pass.destroy(err), called by the relay
Destroy(p) == [p EXCEPT !.destroyed = TRUE, !.destroyCalls = @ + 1]

\* pass.end(): a stream destroyed with an error is not ended.
End(p) == [p EXCEPT !.ended = (@ \/ ~p.destroyed), !.endCalls = @ + 1]

\* A write that puts the chunk in front of what the sink holds.
WriteInFront(p, lo, k) ==
    IF p.destroyed \/ p.ended THEN p
    ELSE [p EXCEPT !.data = [i \in 1..k |-> lo + i - 1] \o @]

\* pass.write(chunk) of the offsets lo..lo+k-1: a destroyed stream drops them.
Write(p, lo, k) ==
    IF p.destroyed \/ p.ended THEN p
    ELSE [p EXCEPT !.data = @ \o [i \in 1..k |-> lo + i - 1]]

\* The timer is left armed.
ClearTimeoutNoop(t) == t

\* clearTimeout(noDataTimer)
ClearTimeout(t) == IF t = "armed" THEN "cleared" ELSE t

\* The task runs up to its first await: it arms the no-data timer and issues
\* the unranged request (length unknown) or the first ranged request.
Open ==
    /\ pc = "open"
    /\ noDataTimer' = "armed"
    /\ IF total = 0
       THEN /\ requests' = Append(requests, FullRequest)
            /\ pc' = "fetch_unranged"
       ELSE /\ requests' = Append(requests, RangeRequest(start, total, CHUNK_SIZE))
            /\ pc' = "fetch_range"
    /\ UNCHANGED <<resLen, total, CHUNK_SIZE, start, part, wrote, bytesWritten,
                   body, awaitDrain, pass, firedEmpty, cancelled, reqAtClose>>
    /\ UNCHANGED monitorVars
    /\ UNCHANGED botVars

\* The no-data callback destroys the sink with every byte count.
NoDataCallbackAlways(bw) == TRUE

\* if (bytesWritten === 0) pass.destroy(new Error('No data received from CDN'))
NoDataCallback(bw) == bw = 0

\* The no-data timer expires, at any moment after it was armed.
NoDataFire ==
    /\ noDataTimer = "armed"
    /\ noDataTimer' = "fired"
    /\ pass' = IF NoDataCallback(bytesWritten) THEN Destroy(pass) ELSE pass
    /\ firedEmpty' = (bytesWritten = 0)
    /\ UNCHANGED <<resLen, total, CHUNK_SIZE, pc, start, part, wrote,
                   bytesWritten, body, awaitDrain, requests, cancelled,
                   reqAtClose>>
    /\ UNCHANGED monitorVars
    /\ UNCHANGED botVars

\* The awaited fetch resolves: a response that is not ok (or has no body)
\* throws into the catch block, which destroys the sink.
Response(ok, kind) ==
    /\ pc \in {"fetch_unranged", "fetch_range", "fetch_full"}
    /\ IF ~ok
       THEN /\ kind = "exact"
            /\ pass' = Destroy(pass)
            /\ pc' = "failed"
            /\ UNCHANGED <<body, wrote>>
       ELSE /\ body' = BodyOf(requests[Len(requests)], kind)
            /\ body'.lo <= body'.hi
            /\ kind = "short" => body'.lo < body'.hi
            /\ wrote' = IF pc = "fetch_range" THEN 0 ELSE wrote
            /\ pc' = CASE pc = "fetch_unranged" -> "body_unranged"
                       [] pc = "fetch_range"    -> "body_range"
                       [] OTHER                 -> "body_full"
            /\ UNCHANGED pass
    /\ UNCHANGED <<resLen, total, CHUNK_SIZE, start, part, bytesWritten,
                   awaitDrain, noDataTimer, requests, firedEmpty, cancelled,
                   reqAtClose>>
    /\ UNCHANGED monitorVars
    /\ UNCHANGED botVars

\* The task goes on although the promise of 'drain' has not resolved.
ResumableAlways(waiting) == TRUE

\* await new Promise(resolve => pass.once('drain', resolve)): the task goes on
\* only when it is not waiting for 'drain'.
Resumable(waiting) == ~waiting

\* The loop over the body is left before the body has ended.
BodyDoneEarly(b) == TRUE

\* for await (const chunk of resp.body) has ended: the body has no more chunk.
BodyDone(b) == b.lo = b.hi

\* One iteration of for await (const chunk of resp.body): count the chunk,
\* write it, and await 'drain' when write returned false.
ReadChunk(k, saturated) ==
    /\ pc \in {"body_unranged", "body_range", "body_full"}
    /\ Resumable(awaitDrain)
    /\ k \in 1..Min(MaxRead, body.hi - body.lo)
    /\ body' = [body EXCEPT !.lo = @ + k]
    /\ wrote' = IF pc = "body_range" THEN wrote + k ELSE wrote
    /\ bytesWritten' = bytesWritten + k
    /\ pass' = Write(pass, body.lo, k)
    /\ saturated => ~pass.destroyed
    /\ awaitDrain' = saturated
    /\ UNCHANGED <<resLen, total, CHUNK_SIZE, pc, start, part, noDataTimer,
                   requests, firedEmpty, cancelled, reqAtClose>>
    /\ UNCHANGED monitorVars
    /\ UNCHANGED botVars

\* The consumer has read enough: 'drain' is emitted.
Drain ==
    /\ awaitDrain
    /\ ~pass.destroyed
    /\ awaitDrain' = FALSE
    /\ UNCHANGED <<resLen, total, CHUNK_SIZE, pc, start, part, wrote,
                   bytesWritten, body, noDataTimer, pass, requests, firedEmpty,
                   cancelled, reqAtClose>>
    /\ UNCHANGED monitorVars
    /\ UNCHANGED botVars

\* clearTimeout(noDataTimer); pass.end()
Complete ==
    /\ noDataTimer' = ClearTimeout(noDataTimer)
    /\ pass' = End(pass)
    /\ pc' = "done"

\* An empty fallback body makes the relay ask for the whole resource again.
FullBodyEndRetries ==
    /\ pc \in {"body_unranged", "body_full"}
    /\ Resumable(awaitDrain)
    /\ BodyDone(body)
    /\ IF pc = "body_full" /\ bytesWritten = 0
       THEN /\ requests' = Append(requests, FullRequest)
            /\ pc' = "fetch_full"
            /\ UNCHANGED <<noDataTimer, pass>>
       ELSE /\ Complete
            /\ UNCHANGED requests
    /\ UNCHANGED <<resLen, total, CHUNK_SIZE, start, part, wrote, bytesWritten,
                   body, awaitDrain, firedEmpty, cancelled, reqAtClose>>
    /\ UNCHANGED monitorVars
    /\ UNCHANGED botVars

\* The body of the unranged response, or of the fallback response, has ended.
FullBodyEnd ==
    /\ pc \in {"body_unranged", "body_full"}
    /\ Resumable(awaitDrain)
    /\ BodyDone(body)
    /\ Complete
    /\ UNCHANGED <<resLen, total, CHUNK_SIZE, start, part, wrote, bytesWritten,
                   body, awaitDrain, requests, firedEmpty, cancelled, reqAtClose>>
    /\ UNCHANGED monitorVars
    /\ UNCHANGED botVars

\* The body of a ranged response has ended: an empty one starts the unranged
\* fallback; otherwise the cursor moves past the range asked for and the loop
\* issues the next request or completes.
RangeBodyEnd ==
    /\ pc = "body_range"
    /\ Resumable(awaitDrain)
    /\ BodyDone(body)
    /\ IF wrote = 0
       THEN /\ requests' = Append(requests, FullRequest)
            /\ pc' = "fetch_full"
            /\ UNCHANGED <<start, part, noDataTimer, pass>>
       ELSE /\ part' = part + 1
            /\ start' = RangeEnd(start, total, CHUNK_SIZE) + 1
            /\ IF start' < total
               THEN /\ requests' = Append(requests,
                                          RangeRequest(start', total, CHUNK_SIZE))
                    /\ pc' = "fetch_range"
                    /\ UNCHANGED <<noDataTimer, pass>>
               ELSE /\ Complete
                    /\ UNCHANGED requests
    /\ UNCHANGED <<resLen, total, CHUNK_SIZE, wrote, bytesWritten, body,
                   awaitDrain, firedEmpty, cancelled, reqAtClose>>
    /\ UNCHANGED monitorVars
    /\ UNCHANGED botVars

\* The player destroys the stream it was handed (the track is skipped or the
\* queue deleted) while the task is running.
ConsumerDestroy ==
    /\ pc \in {"fetch_unranged", "fetch_range", "fetch_full",
               "body_unranged", "body_range", "body_full"}
    /\ ~pass.destroyed
    /\ pass' = [pass EXCEPT !.destroyed = TRUE]
    /\ cancelled' = TRUE
    /\ reqAtClose' = Len(requests)
    /\ UNCHANGED <<resLen, total, CHUNK_SIZE, pc, start, part, wrote,
                   bytesWritten, body, awaitDrain, noDataTimer, requests,
                   firedEmpty>>
    /\ UNCHANGED monitorVars
    /\ UNCHANGED botVars

RelayNext ==
    \/ Open
    \/ NoDataFire
    \/ \E ok \in BOOLEAN, kind \in BodyKinds : Response(ok, kind)
    \/ \E k \in 1..MaxRead, saturated \in BOOLEAN : ReadChunk(k, saturated)
    \/ Drain
    \/ FullBodyEnd
    \/ RangeBodyEnd
    \/ ConsumerDestroy

----------------------------------------------------------------------------
(* Startup (createPlayerClient) and the dispatch of /play *)

NoPlay == [state |-> "idle", channel |-> None]

\* The bot has started and createPlayerClient has returned: no stale cookies.
BotReady ==
    /\ cookiesConfigured = FALSE
    /\ boot = "ready"
    /\ store = "plain"
    /\ usedCookies = FALSE
    /\ verified = None
    /\ tracks = 0
    /\ plays = [i \in Cmds |-> NoPlay]

\* The process starts, with or without YOUTUBE_COOKIES_PATH.
BotInit ==
    /\ cookiesConfigured \in BOOLEAN
    /\ boot = "start"
    /\ store = None
    /\ usedCookies = FALSE
    /\ verified = None
    /\ tracks = 0
    /\ plays = [i \in Cmds |-> NoPlay]

\* player.extractors.unregister(identifier)
Unregister(st) == None

\* player.extractors.register(YoutubeiExtractor, options): the store is keyed
\* by the extractor's identifier and keeps an entry it already has.
Register(st, how) == IF st = None THEN how ELSE st

\* Whether a test search with cookies that found no track keeps the cookie
\* registration ("Do not fallback; ... forcing cookies anyway").
KeepCookiesOnEmpty == TRUE

\* The branch for YOUTUBE_COOKIES_PATH up to the test search: readFileSync or
\* register throws into the catch block, which unregisters; or the extractor
\* is registered with the cookies.
RegisterWithCookies ==
    /\ boot = "start"
    /\ cookiesConfigured
    /\ \E ok \in BOOLEAN :
          IF ok
          THEN /\ store' = Register(store, "cookies")
               /\ boot' = "verify"
          ELSE /\ store' = Unregister(store)
               /\ boot' = "plain"
    /\ UNCHANGED <<cookiesConfigured, usedCookies, verified, tracks, plays>>
    /\ UNCHANGED monitorVars
    /\ UNCHANGED relayVars

\* The test search with cookies resolves with tracks or with none, or rejects.
VerifyCookies(res) ==
    /\ boot = "verify"
    /\ verified' = res
    /\ CASE res = "tracks" ->
              /\ usedCookies' = TRUE
              /\ UNCHANGED store
         [] res = "empty" ->
              IF KeepCookiesOnEmpty
              THEN /\ usedCookies' = TRUE
                   /\ UNCHANGED store
              ELSE /\ store' = Unregister(store)
                   /\ UNCHANGED usedCookies
         [] OTHER ->
              /\ store' = Unregister(store)
              /\ UNCHANGED usedCookies
    /\ boot' = "plain"
    /\ UNCHANGED <<cookiesConfigured, tracks, plays>>
    /\ UNCHANGED monitorVars
    /\ UNCHANGED relayVars

\* if (!usedCookies) register without cookies and run the test search, whose
\* outcome is only logged; then the default extractors are loaded and
\* createPlayerClient returns.
RegisterPlain ==
    /\ \/ boot = "plain"
       \/ boot = "start" /\ ~cookiesConfigured
    /\ store' = IF ~usedCookies THEN Register(store, "plain") ELSE store
    /\ boot' = "ready"
    /\ UNCHANGED <<cookiesConfigured, usedCookies, verified, tracks, plays>>
    /\ UNCHANGED monitorVars
    /\ UNCHANGED relayVars

\* interactionCreate for /play from text channel ch: the dispatcher calls
\* command.execute(interaction); execute checks the size of the queue and is
\* suspended at deferReply and at the search.
PlayCheck(i, ch) ==
    /\ boot = "ready"
    /\ plays[i].state = "idle"
    /\ plays' = IF tracks + 1 > QUEUE_MAX_SIZE
                THEN plays
                ELSE [plays EXCEPT ![i] = [state |-> "searching", channel |-> ch]]
    /\ UNCHANGED <<cookiesConfigured, boot, store, usedCookies, verified, tracks>>
    /\ UNCHANGED monitorVars
    /\ UNCHANGED relayVars

\* The search resolves with n tracks (none, one, or a playlist) and
\* player.play adds them to the queue.
PlayEnqueue(i, n) ==
    /\ plays[i].state = "searching"
    /\ n \in 0..MaxPlaylist
    /\ tracks' = tracks + n
    /\ plays' = [plays EXCEPT ![i] = NoPlay]
    /\ UNCHANGED <<cookiesConfigured, boot, store, usedCookies, verified>>
    /\ UNCHANGED monitorVars
    /\ UNCHANGED relayVars

\* A track finishes or is skipped.
TrackEnd ==
    /\ tracks > 0
    /\ tracks' = tracks - 1
    /\ UNCHANGED <<cookiesConfigured, boot, store, usedCookies, verified, plays>>
    /\ UNCHANGED monitorVars
    /\ UNCHANGED relayVars

BotNext ==
    \/ RegisterWithCookies
    \/ \E res \in {"tracks", "empty", "error"} : VerifyCookies(res)
    \/ RegisterPlain
    \/ \E i \in Cmds, ch \in Channels : PlayCheck(i, ch)
    \/ \E i \in Cmds, n \in 0..MaxPlaylist : PlayEnqueue(i, n)
    \/ TrackEnd

----------------------------------------------------------------------------
Init == MonitorInit /\ RelayOff /\ BotReady

Next == MonitorNext

Spec == Init /\ [][Next]_vars

\* The event loop runs an expired timer's callback and resumes a suspended
\* /play, and time passes.
FairSpec ==
    /\ Init
    /\ [][Next]_vars
    /\ WF_vars(Tick)
    /\ \A h \in Handles : WF_vars(TimerFire(h))
    /\ \A g \in Guilds : WF_vars(PlayConnect(g))

\* The bot with auto-leave configured off.
InitDisabled == MonitorInitDisabled /\ RelayOff /\ BotReady

DisabledSpec == InitDisabled /\ [][Next]_vars

\* The bot with the idle monitor of src/core/DistubeClient.js.
DistubeSpec == Init /\ [][DistubeNext]_vars

RelayStart == MonitorInit /\ RelayInit /\ BotReady

\* The process from its start: createPlayerClient, then /play interactions.
BotStart == MonitorInit /\ RelayOff /\ BotInit

BotSpec == BotStart /\ [][BotNext]_vars

RelaySpec == RelayStart /\ [][RelayNext]_vars

\* Every fetch resolves, every body yields its chunks and ends, a consumer
\* that has not destroyed the sink reads it, and the task runs when it can.
RelayFairSpec ==
    /\ RelayStart
    /\ [][RelayNext]_vars
    /\ WF_vars(Open)
    /\ WF_vars(\E ok \in BOOLEAN, kind \in BodyKinds : Response(ok, kind))
    /\ WF_vars(\E k \in 1..MaxRead, saturated \in BOOLEAN : ReadChunk(k, saturated))
    /\ WF_vars(Drain)
    /\ WF_vars(FullBodyEnd)
    /\ WF_vars(RangeBodyEnd)

----------------------------------------------------------------------------
(* The idle monitor *)

\* The last step was the callback of an idle timer of a guild that had a queue.
FiredOnSession == last.op = "fire" /\ last.hadQueue

\* C1 (as claimed): in every state and for every guild, an idle timer is armed
\* for the guild if and only if the guild has a session (a queue) and its
\* channel has no human.
C1_TimerIffIdle ==
    \A g \in Guilds :
        (Has(idleTimers, g) \/ TimersOf(g) # {}) <=> (g \in queues /\ humans[g] = 0)

\* C2 (as claimed): the idle callback tears a session down only if that
\* session has had no human for the whole idle duration just before.
C2_TeardownOnlyAfterFullIdle ==
    (last.op = "fire" /\ last.teardown) => last.idle >= IdleTicks

C4_LateRejoinKeepsSession ==
    (FiredOnSession /\ last.occ > 0) =>
        /\ ~last.teardown
        /\ last.g \in queues
        /\ ~last.threw /\ ~last.logged /\ ~last.propagated

C4_Witness == FiredOnSession /\ last.occ > 0 /\ last.g \in queues

\* C5 (as claimed): right after /stop or /leave has deleted the queue, the guild
\* has no handle in idleTimers and no timer of the guild is pending.
C5_StopCancelsTimer ==
    (last.op \in {"stop", "leave"} /\ ~last.threw) =>
        ~Has(idleTimers, last.g) /\ TimersOf(last.g) = {}

\* C6: after the idle callback ran, on every path (no queue, humans present,
\* teardown done, teardown threw), the guild has no handle in idleTimers, and a
\* teardown error was caught and logged and did not leave the callback.
C6_HandleReleasedOnEveryPath ==
    last.op = "fire" =>
        /\ ~Has(idleTimers, last.g)
        /\ ~last.propagated
        /\ (last.threw => last.logged)

C6_Witness == last.op = "fire" /\ last.threw /\ ~Has(idleTimers, last.g)

\* C7 (as claimed): whenever a session's occupancy has dropped to zero, later
\* the session is terminated or a human is back in the channel.
C7_EmptyChannelEventuallyLeft ==
    \A g \in Guilds :
        (last.op = "notify" /\ last.g = g /\ last.hadQueue /\ last.occ = 0)
            ~> (g \notin queues \/ humans[g] > 0)

\* C19 (as claimed): once a guild's session was terminated by the idle callback
\* or by /stop or /leave, and until the guild gets a new session, a
\* voiceStateUpdate or an idle callback of that guild arms no timer, invokes no
\* teardown and leaves idleTimers, the pending timers and player.queues as
\* they were.
C19_TerminatedAbsorbing ==
    [][\A g \in Guilds :
         (/\ endedBy[g] \in {"fire", "stop", "leave"}
          /\ last'.op \in {"notify", "fire"}
          /\ last'.g = g)
         => /\ idleTimers' = idleTimers
            /\ pending' = pending
            /\ queues' = queues
            /\ ~last'.teardown]_vars

\* C20 (as claimed): with AUDIO.IDLE_TIMEOUT = 0 no idle timer is ever armed
\* and the idle callback never tears a session down.
C20_ZeroDisablesAutoLeave ==
    idleTimeout = 0 =>
        /\ idleTimers = EmptyMap
        /\ pending = EmptyMap
        /\ ~(last.op = "fire" /\ last.teardown)

\* C21 (as claimed): after 'emptyQueue' of a guild, later the guild's queue is
\* deleted (the bot has left) or a /play of the guild has run, with humans in
\* the channel or without.
C21_LeavesAfterQueueEnd ==
    \A g \in Guilds :
        (last.op = "emptyQueue" /\ last.g = g /\ last.logged)
            ~> (g \notin queues \/ (last.op \in {"play", "connect"} /\ last.g = g))

\* C22 (as claimed): the guild's queue, the current track counted, never holds
\* more than QUEUE.MAX_SIZE tracks.
C22_QueueWithinMaxSize == tracks <= QUEUE_MAX_SIZE

\* C23 (as claimed): a /play that has passed its checks and will search and
\* enqueue came from the channel music-requests.
C23_OnlyFromMusicChannel ==
    \A i \in Cmds :
        plays[i].state = "searching" => plays[i].channel = MUSIC_REQUESTS_NAME

\* C24 (as claimed): when createPlayerClient has returned, the extractor is
\* registered once; and if the test search with cookies found no track or
\* rejected, the registration with cookies was removed and the extractor is
\* registered without cookies.
C24_CookieFallback ==
    boot = "ready" =>
        /\ store \in {"cookies", "plain"}
        /\ verified \in {"empty", "error"} => store = "plain"

\* C25: a voiceStateUpdate that reads zero humans while the guild has a handle
\* in idleTimers, or humans while it has none, leaves idleTimers and the
\* pending timers with their deadlines, and player.queues, as they were.
C25_OtherNotificationsNoOp ==
    [][\A g \in Guilds :
         (/\ last'.op = "notify" /\ last'.g = g
          /\ \/ last'.occ = 0 /\ Has(idleTimers, g)
             \/ last'.occ > 0 /\ ~Has(idleTimers, g))
         => /\ idleTimers' = idleTimers
            /\ pending' = pending
            /\ queues' = queues]_vars

C25_Witness ==
    /\ last.op = "notify" /\ last.occ = 0 /\ last.hadQueue /\ last.hadTimer
    /\ Has(idleTimers, last.g)
    /\ pending[idleTimers[last.g]].left = 1

\* C27 (as claimed): in every state each guild has at most one pending idle
\* timer and every pending timer is the one idleTimers holds for its guild, so
\* the finally block of a callback has not removed the handle of a timer armed
\* while the callback awaited the teardown.
C27_OnePendingTimerPerSession ==
    \A g \in Guilds :
        /\ Cardinality(TimersOf(g)) <= 1
        /\ \A h \in TimersOf(g) : Has(idleTimers, g) /\ idleTimers[g] = h

\* C29: a voiceStateUpdate, an idle callback, a /stop, a /leave or a
\* disconnect of one guild leaves every other guild's entry in idleTimers, its
\* pending timers and its queue as they were.
C29_SessionsIndependent ==
    [][\A b \in Guilds :
         (last'.op \in {"notify", "fire", "stop", "leave", "disconnect"}
            /\ last'.g # b)
         => /\ Has(idleTimers', b) <=> Has(idleTimers, b)
            /\ Has(idleTimers, b) => idleTimers'[b] = idleTimers[b]
            /\ \A h \in Handles :
                  (Has(pending, h) /\ pending[h].guild = b)
                     <=> (Has(pending', h) /\ pending'[h].guild = b)
            /\ \A h \in TimersOf(b) : pending'[h] = pending[h]
            /\ (b \in queues') <=> (b \in queues)]_vars

C29_Witness ==
    /\ last.op = "fire" /\ last.teardown /\ ~last.threw
    /\ \E b \in Guilds :
          /\ b # last.g /\ b \in queues /\ humans[b] = 0
          /\ Has(idleTimers, b) /\ TimersOf(b) = {idleTimers[b]}

----------------------------------------------------------------------------
(* The media relay *)

\* The first n offsets of the resource, in order.
Offsets(n) == [i \in 1..n |-> i - 1]

\* The unranged fallback was taken.
UsedFallback == \E k \in 1..Len(requests) : k > 1 /\ requests[k].kind = "full"

\* The transfer of a resource of known length completed through the ranged loop.
CompletedRanged == pc = "done" /\ total > 0 /\ ~UsedFallback /\ pass.ended

\* C8 (as claimed): when a transfer of known length L completes through the
\* ranged loop, whatever success responses the server sent, the sink holds
\* exactly the offsets 0 .. L-1, each once and in increasing order.
C8_RangedDeliveryExact == CompletedRanged => pass.data = Offsets(total)

\* C9: with known length L and chunk size C the k-th ranged request is the
\* inclusive range [(k-1)*C, min(k*C, L) - 1]; each request starts one past the
\* end of the one before; the cursor is min(part*C, L); when the loop ends
\* there are ceil(L/C) requests, they cover 0 .. L-1 and the cursor is L; and
\* the cursor never decreases.
C9_RangesState ==
    total > 0 =>
        /\ \A k \in 1..Len(requests) :
              requests[k].kind = "range" =>
                 /\ requests[k].s = (k - 1) * CHUNK_SIZE
                 /\ requests[k].e = Min(k * CHUNK_SIZE, total) - 1
                 /\ requests[k].s <= requests[k].e
                 /\ k > 1 => requests[k].s = requests[k - 1].e + 1
        /\ start = Min(part * CHUNK_SIZE, total)
        /\ (pc = "done" /\ ~UsedFallback) =>
              /\ start = total
              /\ Len(requests) = (total + CHUNK_SIZE - 1) \div CHUNK_SIZE
              /\ UNION {requests[k].s .. requests[k].e : k \in 1..Len(requests)}
                    = 0 .. (total - 1)

C9_RangesPartitionLength == []C9_RangesState /\ [][start' >= start]_vars

C9_Witness ==
    /\ CompletedRanged
    /\ Len(requests) = 3
    /\ total % CHUNK_SIZE # 0
    /\ start = total

\* The first ranged response had an empty body and the fallback response was ok.
FirstChunkFallbackOk ==
    /\ total > 0
    /\ Len(requests) = 2
    /\ requests[2].kind = "full"
    /\ pc \in {"body_full", "done"}

\* C10 (as claimed): if the first ranged response has an empty body and the
\* fallback response is ok, the sink is never destroyed and the transfer ends
\* with the sink ended, whenever the no-data timer expires.
C10_FallbackNeverFails ==
    FirstChunkFallbackOk =>
        /\ ~pass.destroyed /\ pass.destroyCalls = 0
        /\ pc = "done" => pass.ended

\* C10 (amended): the same, in the executions where the no-data timer does
\* not expire before the first byte is written and the consumer does not
\* destroy the sink.
C10_FallbackCompletesBeforeDeadline ==
    (FirstChunkFallbackOk /\ ~firedEmpty /\ ~cancelled) =>
        /\ ~pass.destroyed /\ pass.destroyCalls = 0
        /\ pc = "done" => pass.ended

C10_Witness ==
    /\ FirstChunkFallbackOk /\ ~firedEmpty /\ ~cancelled
    /\ pc = "done" /\ pass.ended
    /\ pass.data = Offsets(resLen)

\* C11 (as claimed): in every execution in which the no-data timer expired
\* with no byte written, the relay has called pass.destroy exactly once, the
\* calls of the timer callback and of the catch block counted together.
C11_DestroyedExactlyOnce == firedEmpty => pass.destroyCalls = 1

\* C12: while the task waits for 'drain' after a write that returned false, no
\* chunk is pulled from a response body, nothing is written to the sink and no
\* request is issued, on the unranged, the ranged and the fallback path.
C12_NoPullWhileSaturated ==
    [][awaitDrain =>
          /\ body' = body
          /\ pass'.data = pass.data
          /\ bytesWritten' = bytesWritten
          /\ requests' = requests
          /\ pc' = pc]_vars

C12_Witness == awaitDrain /\ pc = "body_full" /\ body.lo < body.hi /\ wrote = 0

\* C13 (as claimed): after the consumer destroyed the sink of a running
\* transfer, the relay issues no request beyond those issued before, and the
\* task neither completes (pass.end) nor fails (catch block).
C13_CloseHaltsRequests ==
    cancelled => Len(requests) = reqAtClose /\ pc \notin {"done", "failed"}

\* A transfer that has failed: the relay destroyed the sink with the error
\* and never called pass.end.
C14_Failed ==
    pc = "failed" =>
        /\ pass.destroyed /\ pass.destroyCalls >= 1
        /\ ~pass.ended /\ pass.endCalls = 0

\* C14: a response that is not ok, to the unranged request, a ranged request
\* or the fallback request, fails the transfer: the sink is destroyed with the
\* error and is never ended, and no request is issued afterwards.
C14_NonOkIsFatal ==
    /\ []C14_Failed
    /\ [][pc = "failed" => pc' = "failed" /\ requests' = requests]_vars
    /\ [][(pc \in {"fetch_unranged", "fetch_range", "fetch_full"} /\ pc' # pc)
            => \/ pc' = "failed" /\ pass'.destroyCalls = pass.destroyCalls + 1
               \/ pc' \in {"body_unranged", "body_range", "body_full"}
                  /\ pass' = pass]_vars

C14_Witness ==
    /\ pc = "failed" /\ UsedFallback
    /\ pass.destroyed /\ pass.destroyCalls = 1 /\ ~pass.ended

\* C15: with the length unknown the relay issues one request, without a
\* range, and never a second one; while the sink is not destroyed it holds the
\* bytes the body has yielded so far, in the order they arrived; and when the
\* body has ended the sink is ended.
C15_UnrangedSingleRequest ==
    total = 0 =>
        /\ Len(requests) <= 1
        /\ \A k \in 1..Len(requests) : requests[k] = FullRequest
        /\ pc # "open" => Len(requests) = 1
        /\ (pc \in {"body_unranged", "done"} /\ ~pass.destroyed)
              => pass.data = Offsets(body.lo)
        /\ (pc = "done" /\ ~pass.destroyed)
              => pass.ended /\ pass.endCalls = 1 /\ body.lo = body.hi

C15_Witness ==
    /\ total = 0 /\ pc = "done" /\ pass.ended
    /\ resLen > MaxRead
    /\ pass.data = Offsets(resLen)
    /\ requests = <<FullRequest>>

\* C16: the no-data timer is armed once, by the task's first step, and leaves
\* the armed state once, by firing or by clearTimeout; and a firing after the
\* first byte was counted, or after the transfer completed, leaves the sink
\* and the transfer as they were.
C16_SingleGuard ==
    [][/\ noDataTimer' # noDataTimer =>
            \/ noDataTimer = "unset" /\ noDataTimer' = "armed" /\ pc = "open"
            \/ noDataTimer = "armed" /\ noDataTimer' \in {"fired", "cleared"}
       /\ (noDataTimer' = "fired" /\ noDataTimer # "fired"
             /\ (bytesWritten > 0 \/ pc = "done"))
            => pass' = pass /\ pc' = pc]_vars

C16_Witness ==
    /\ noDataTimer = "fired" /\ ~firedEmpty
    /\ pc = "done" /\ pass.ended /\ pass.destroyCalls = 0

\* An unranged request is the last request issued.
C17_FullIsLast ==
    \A k \in 1..Len(requests) : requests[k].kind = "full" => k = Len(requests)

\* C17: the unranged fallback request is issued at most once per transfer and
\* is the last request: no ranged request follows it, and a fallback response
\* that is not ok or has an empty body is not followed by another request.
C17_FallbackOnce ==
    /\ []C17_FullIsLast
    /\ [][UsedFallback => requests' = requests]_vars

C17_Witness ==
    /\ UsedFallback /\ pc = "done"
    /\ bytesWritten = 0 /\ pass.data = << >> /\ pass.ended

\* C18: a request is issued only by the task's first step or when the body of
\* the ranged response before it has ended and the task is not waiting for
\* 'drain'; requests are issued one at a time.
C18_OneRequestOutstanding ==
    [][Len(requests') # Len(requests) =>
          /\ Len(requests') = Len(requests) + 1
          /\ \/ pc = "open"
             \/ pc = "body_range" /\ body.lo = body.hi /\ ~awaitDrain]_vars

C18_Witness ==
    /\ Len(requests) = 3 /\ pc = "fetch_range"
    /\ requests[3].s = start
    /\ pass.data = Offsets(start)

\* The transfer of a resource of known length completed through the fallback.
CompletedByFallback == pc = "done" /\ total > 0 /\ UsedFallback /\ pass.ended

\* C26 (as claimed): when a transfer of known length completes through the
\* empty-body fallback, at whichever chunk the empty body came, no offset of
\* the resource is in the sink twice.
C26_FallbackNoRedelivery ==
    CompletedByFallback =>
        \A i, j \in 1..Len(pass.data) : i # j => pass.data[i] # pass.data[j]

\* C28 (as claimed): once the relay has destroyed the sink (timer callback or
\* catch block) it issues no request, counts and writes no chunk and does not
\* call pass.end; and the sink is never both ended and destroyed by the relay.
C28_TerminalAbsorbing ==
    /\ [](~(pass.ended /\ pass.destroyCalls >= 1))
    /\ [][pass.destroyCalls >= 1 =>
            /\ requests' = requests
            /\ bytesWritten' = bytesWritten
            /\ pass'.endCalls = pass.endCalls]_vars

\* C30 (as claimed): every transfer reaches the end of its task (pass.end
\* called, or the catch block run), when every fetch resolves, every body ends
\* and a sink that is not destroyed drains.
C30_TransferTerminates == <>(pc \in {"done", "failed"})

=============================================================================
